---- MODULE Spec2Model ----
(***************************************************************************)
(* Authorization and abuse-control middleware of the fishing game backend  *)
(* (src/auth.py, configured by src/config.py, applied by src/app.py).      *)
(*                                                                         *)
(* One module, several specifications over the same state:                 *)
(*   SpecVerify       token verifier + revocation registry                 *)
(*   SpecCooldown     cooldown_required under concurrent requests          *)
(*   SpecCooldownSeq  cooldown_required, one request at a time             *)
(*   SpecRate         rate_limit under concurrent requests                 *)
(*   SpecRateSeq      rate_limit, one request at a time                    *)
(*                                                                         *)
(* Time is the value of time.time(), in whole seconds, read from `clock`.  *)
(* Every `with <lock>:` block of auth.py performs no blocking call, so it  *)
(* is one atomic step; the reads of time.time() that the code performs     *)
(* outside a lock are separate steps.                                      *)
(***************************************************************************)
EXTENDS Integers, Sequences, FiniteSets, TLC

VARIABLES
    clock,               \* time.time()
    jwt_secret,          \* how Config.SUPABASE_JWT_SECRET reads (see SecretModes)
    supabase_url,        \* how Config.SUPABASE_URL reads (see UrlModes)
    cred,                \* the credential presented by the client under study
    token_blacklist,     \* auth.token_blacklist
    revoked,             \* ghost: credentials for which blacklist_token returned
    vlast,               \* ghost: the last verify_token call and what it returned
    rate_limit_storage,  \* auth.rate_limit_storage
    admitted,            \* ghost: per identity, how many requests were admitted at each time
    cooldown_storage,    \* auth.cooldown_storage
    passes,              \* ghost: per identity, the times of the last two Allowed of check_cooldown
    login_attempts,      \* auth.login_attempts
    failures,            \* ghost: per identifier, the times of the failures recorded since its last clear
    exchanges,           \* ghost: per account, the times of its latest failed credential exchanges
    th                   \* per request thread: position and locals

vars == <<clock, jwt_secret, supabase_url, cred, token_blacklist, revoked, vlast,
          rate_limit_storage, admitted, cooldown_storage, passes,
          login_attempts, failures, exchanges, th>>

verifyVars == <<jwt_secret, supabase_url, cred, token_blacklist, revoked, vlast>>
rateVars == <<rate_limit_storage, admitted>>
cooldownVars == <<cooldown_storage, passes>>
loginVars == <<login_attempts, failures, exchanges>>

----------------------------------------------------------------------------
(* Bounds of the model *)

\* time.time() ranges over 1..MaxTime (the epoch itself, 0, is in the past)
MaxTime == 4

\* max_requests and window_seconds of rate_limit (30 or 100 per 60 s in app.py),
\* scaled down
RateMax == 2
RateWindow == 2

\* max_requests of the endpoints with the larger limit (100 against 30 in app.py)
RateMaxWide == 3

\* LOGIN_MAX_ATTEMPTS and LOGIN_LOCKOUT_SECONDS as the login actions use them,
\* scaled down
LoginMax == 2
LoginWindow == 2

\* A header field or claim is <<>> when absent and <<v>> when present with value v
NoClaim == <<>>
Claim(v) == <<v>>

\* a function that returned None / raised nothing
None == "<None>"

----------------------------------------------------------------------------
(* Credentials.  A credential is a JWT string; the model keeps what          *)
(* verify_token reads of it: whether it parses as a JWT, the header's alg,   *)
(* whether its HS256 signature matches the configured secret, and the        *)
(* claims iss, exp and sub.  Credentials carry no iat/nbf claim.             *)

\* Config.SUPABASE_URL, as a sequence of characters
SUPABASE_URL == <<"s", "b">>

AlgNames == {"HS256", "RS256", "ES256", "HS384", "none", "None", "NONE"}
Algs == {NoClaim} \cup {Claim(a) : a \in AlgNames}

IssuerStrings == {<<>>, SUPABASE_URL, SUPABASE_URL \o <<"/">>,
                  <<"x">> \o SUPABASE_URL, <<"s">>, <<"b", "s">>}
Issuers == {NoClaim} \cup {Claim(i) : i \in IssuerStrings}

Exps == {NoClaim} \cup {Claim(e) : e \in 1..(MaxTime + 1)}

Subs == {NoClaim, Claim(""), Claim("u1")}

JwtTokens == [form : {"jwt"}, alg : Algs, sig : {"good", "bad"},
              iss : Issuers, exp : Exps, sub : Subs]

\* a string that is no JWT at all
Garbage == [form |-> "garbage", alg |-> NoClaim, sig |-> "bad",
            iss |-> NoClaim, exp |-> NoClaim, sub |-> NoClaim]

Tokens == JwtTokens \cup {Garbage}

\* How reading Config.SUPABASE_JWT_SECRET ends.  config.py as shipped defines
\* no such attribute ("undefined": the read raises AttributeError); a Config
\* that defines it from the environment yields a falsy value when the
\* variable is unset ("empty") and the secret otherwise ("set").
SecretModes == {"undefined", "empty", "set"}

\* How Config.SUPABASE_URL reads: the string SUPABASE_URL when the environment
\* defines it ("set"), None otherwise ("unset")
UrlModes == {"set", "unset"}

\* str.lower() on the header values of the model
Lower(s) == CASE s = "None" -> "none"
              [] s = "NONE" -> "none"
              [] s = "none" -> "none"
              [] s = "HS256" -> "hs256"
              [] s = "RS256" -> "rs256"
              [] s = "ES256" -> "es256"
              [] s = "HS384" -> "hs384"
              [] OTHER -> s

\* Python's `a in b` on strings
IsSubstring(a, b) ==
    \E i \in 0..(Len(b) - Len(a)) : SubSeq(b, i + 1, i + Len(a)) = a

\* dict.get(key, default)
Get(d, key, default) == IF d[key] = NoClaim THEN default ELSE d[key][1]

Payload(tok) == [iss |-> tok.iss, exp |-> tok.exp, sub |-> tok.sub]

\* What verify_token returns: None (ok = FALSE) or the payload, and the line
\* it prints
NoPayload == [iss |-> NoClaim, exp |-> NoClaim, sub |-> NoClaim]
Rejected(msg) == [ok |-> FALSE, payload |-> NoPayload, msg |-> msg]
Accepted(payload) == [ok |-> TRUE, payload |-> payload, msg |-> "ok"]

----------------------------------------------------------------------------
(* Revocation registry *)

\* sha256(token)[:32]: 128 bits, taken as collision-free on the credentials
\* of the model
get_token_hash(tok) == <<"sha256/128", tok>>

\* mutant: looks the untruncated digest up, which blacklist_token never stored
is_token_blacklisted_fulldigest(tok, blacklist) == <<"sha256/256", tok>> \in blacklist

is_token_blacklisted(tok, blacklist) == get_token_hash(tok) \in blacklist

\* mutant: a fingerprint already in the set is taken out
BlacklistAdd_toggle(blacklist, tok) ==
    IF get_token_hash(tok) \in blacklist
    THEN blacklist \ {get_token_hash(tok)}
    ELSE blacklist \cup {get_token_hash(tok)}

\* auth.py 38-39: token_blacklist.add(get_token_hash(token))
BlacklistAdd(blacklist, tok) == blacklist \cup {get_token_hash(tok)}

----------------------------------------------------------------------------
(* Token verifier *)

\* jwt.decode(token, secret, algorithms=["HS256"], options={verify_signature,
\* verify_exp, verify_iat, require: [exp, sub, iss]}) of PyJWT 2.x: the
\* exception it raises, or None with the payload decoded.
JwtDecodeVerified(tok, now) ==
    IF tok.form # "jwt" THEN "DecodeError"
    ELSE IF tok.alg = NoClaim \/ tok.alg[1] \notin {"HS256"} THEN "InvalidAlgorithmError"
    ELSE IF tok.sig # "good" THEN "InvalidSignatureError"
    ELSE IF \E c \in {"exp", "sub", "iss"} : Payload(tok)[c] = NoClaim
         THEN "MissingRequiredClaimError"
    ELSE IF tok.exp[1] <= now THEN "ExpiredSignatureError"
    ELSE None

\* auth.py 90-99: the header check of the fallback path; the message printed
\* on rejection, or None
FallbackAlgAllowed(alg) == alg \in {Claim("HS256"), Claim("RS256"), Claim("ES256")}

\* mutant: the fallback path decodes without looking at the header's alg
FallbackHeaderCheck_unchecked(tok) ==
    IF tok.form # "jwt" THEN "bad header" ELSE None

FallbackHeaderCheck(tok) ==
    IF tok.form # "jwt" THEN "bad header"
    ELSE IF Lower(Get(tok, "alg", "")) = "none" THEN "none algorithm"
    ELSE IF ~FallbackAlgAllowed(tok.alg) THEN "unsupported algorithm"
    ELSE None

\* mutant: the operands of `in` swapped
IssuerRejected_swapped(issuer) == issuer = <<>> \/ ~IsSubstring(issuer, SUPABASE_URL)

\* auth.py 110: `not issuer or expected_issuer not in issuer`
IssuerRejected(issuer) == issuer = <<>> \/ ~IsSubstring(SUPABASE_URL, issuer)

\* auth.py 116: `exp < time.time()`
ManualExpired(exp, now) == exp < now

\* auth.py 106-125: the claim checks both paths share
ClaimChecks(payload, now, url) ==
    IF Get(payload, "iss", <<>>) # <<>> /\ url = "unset"
    THEN Rejected("verification error")   \* `None in issuer` raises TypeError
    ELSE IF IssuerRejected(Get(payload, "iss", <<>>)) THEN Rejected("invalid issuer")
    ELSE IF ManualExpired(Get(payload, "exp", 0), now) THEN Rejected("expired")
    ELSE IF Get(payload, "sub", "") = "" THEN Rejected("missing sub")
    ELSE Accepted(payload)

\* auth.py 64-104
DecodePath(tok, now, secret, url) ==
    IF secret = "set"
    THEN LET exc == JwtDecodeVerified(tok, now)
         IN  CASE exc = None -> ClaimChecks(Payload(tok), now, url)
               [] exc = "InvalidAlgorithmError" -> Rejected("invalid algorithm")
               [] exc = "InvalidSignatureError" -> Rejected("invalid signature")
               [] exc = "ExpiredSignatureError" -> Rejected("expired")
               [] OTHER -> Rejected("invalid token")
    ELSE LET rej == FallbackHeaderCheck(tok)
         IN  IF rej # None THEN Rejected(rej)
             ELSE ClaimChecks(Payload(tok), now, url)

\* mutant: without the attribute the verifier goes on in the fallback path
verify_token_failopen(tok, now, secret, url, blacklist) ==
    IF is_token_blacklisted(tok, blacklist) THEN Rejected("blacklisted")
    ELSE DecodePath(tok, now, IF secret = "undefined" THEN "empty" ELSE secret, url)

\* auth.py 51-135: what verify_token returns (payload or None) and prints
verify_token(tok, now, secret, url, blacklist) ==
    IF is_token_blacklisted(tok, blacklist) THEN Rejected("blacklisted")
    ELSE IF secret = "undefined" THEN Rejected("verification error")
    ELSE DecodePath(tok, now, secret, url)

----------------------------------------------------------------------------
(* Operations of the verifier and the registry *)

\* vlast before any verify_token call
NoCall == [called |-> FALSE, now |-> 0, revoked |-> FALSE,
           ok |-> FALSE, payload |-> NoPayload, msg |-> None]

\* blacklist_token(tok)
BlacklistToken ==
    /\ token_blacklist' = BlacklistAdd(token_blacklist, cred)
    /\ revoked' = revoked \cup {cred}
    /\ UNCHANGED <<clock, loginVars, jwt_secret, supabase_url, cred, vlast, rateVars,
                   cooldownVars, th>>

\* verify_token(tok) called at time clock
VerifyToken ==
    /\ LET r == verify_token(cred, clock, jwt_secret, supabase_url, token_blacklist)
       IN  vlast' = [called |-> TRUE, now |-> clock, revoked |-> cred \in revoked,
                     ok |-> r.ok, payload |-> r.payload, msg |-> r.msg]
    /\ UNCHANGED <<clock, loginVars, jwt_secret, supabase_url, cred, token_blacklist, revoked,
                   rateVars, cooldownVars, th>>

----------------------------------------------------------------------------
(* Request threads *)

Threads == {"t1", "t2"}
SeqThreads == {"t1"}

Users == {"u1", "u2"}
\* request.user_id when require_auth did not set it
NoUser == "<no user>"

\* Config.CAST_COOLDOWN_SECONDS
CAST_COOLDOWN_SECONDS == 2

Idle == [pc |-> "idle", op |-> "-", user |-> NoUser, now |-> 0,
         limit |-> 0, status |-> "-", remaining |-> 0,
         kind |-> "-", id |-> "-", ip |-> "-", email |-> "",
         ip_allowed |-> TRUE, ip_remaining |-> 0, email_allowed |-> TRUE,
         dropped |-> 0, body |-> "-", stamp |-> 0, held |-> {}, at |-> "-",
         trail |-> <<>>]

Goto(t, label) == th' = [th EXCEPT ![t].pc = label]

\* ghost: an entry of a request's trail: the step that was evaluated and
\* whether it let the request on
Step(name, passed) == <<name, passed>>

\* the wrapper returns a response without calling the function it wraps
Respond(t, status, remaining) ==
    th' = [th EXCEPT ![t].pc = "done", ![t].status = status,
                     ![t].remaining = remaining]

----------------------------------------------------------------------------
(* Cooldown guard *)

\* auth.py 273-282: the decision of check_cooldown, made under _cooldown_lock:
\* <<can_cast, remaining>>
\* mutant: `<=` for `<`
CooldownActive_inclusive(time_elapsed, cooldown_seconds) ==
    time_elapsed <= cooldown_seconds

CooldownActive(time_elapsed, cooldown_seconds) == time_elapsed < cooldown_seconds

check_cooldown(storage, user_id, now, cooldown_seconds) ==
    IF user_id \in DOMAIN storage
          /\ CooldownActive(now - storage[user_id], cooldown_seconds)
    THEN <<FALSE, cooldown_seconds - (now - storage[user_id])>>
    ELSE <<TRUE, 0>>

\* auth.py 287-288: cooldown_storage[user_id] = stamp
set_cooldown(storage, user_id, stamp) ==
    [u \in DOMAIN storage \cup {user_id} |->
        IF u = user_id THEN stamp ELSE storage[u]]

\* ghost: the last two entries of a history
LastTwo(h) == IF Len(h) <= 2 THEN h ELSE SubSeq(h, Len(h) - 1, Len(h))

\* auth.py 296-301 and 271: a request enters cooldown_required's wrapper;
\* check_cooldown reads time.time() before it takes the lock
CooldownEnter(t) ==
    /\ th[t].pc = "idle"
    /\ \E u \in Users \cup {NoUser} :
         IF u = NoUser
         THEN th' = [th EXCEPT ![t] = [Idle EXCEPT !.pc = "done", !.op = "cooldown",
                                                   !.status = "401"]]
         ELSE th' = [th EXCEPT ![t] = [Idle EXCEPT !.pc = "cd_check", !.op = "cooldown",
                                                   !.user = u, !.now = clock]]
    /\ UNCHANGED <<clock, loginVars, verifyVars, rateVars, cooldownVars>>

\* auth.py 273-282 and 303-308: the check under the lock, and the 429
CheckCooldown(t) ==
    /\ th[t].pc = "cd_check"
    /\ LET r == check_cooldown(cooldown_storage, th[t].user, th[t].now,
                               CAST_COOLDOWN_SECONDS)
       IN  IF r[1]
           THEN /\ th' = [th EXCEPT ![t].pc = "cd_set",
                                    ![t].trail = Append(@, Step("cooldown", TRUE))]
                /\ passes' = [passes EXCEPT ![th[t].user] = LastTwo(Append(@, clock))]
           ELSE /\ th' = [th EXCEPT ![t].pc = "done", ![t].status = "429",
                                    ![t].remaining = r[2],
                                    ![t].trail = Append(@, Step("cooldown", FALSE))]
                /\ UNCHANGED passes
    /\ UNCHANGED <<clock, loginVars, verifyVars, rateVars, cooldown_storage>>

\* auth.py 311 and 287-288: set_cooldown, which reads time.time() under the lock
SetCooldown(t) ==
    /\ th[t].pc = "cd_set"
    /\ cooldown_storage' = set_cooldown(cooldown_storage, th[t].user, clock)
    /\ Goto(t, "action")
    /\ UNCHANGED <<clock, loginVars, verifyVars, rateVars, passes>>

----------------------------------------------------------------------------
(* Rate limiter *)

\* mutant: `<=` for `<`
InWindow_inclusive(now, req_time, window_seconds) == now - req_time <= window_seconds

\* auth.py 248-251
InWindow(now, req_time, window_seconds) == now - req_time < window_seconds

Prune(list, now, window_seconds) ==
    SelectSeq(list, LAMBDA req_time : InWindow(now, req_time, window_seconds))

\* mutant: `>` for `>=`
LimitReached_offbyone(list, max_requests) == Len(list) > max_requests

\* auth.py 254
LimitReached(list, max_requests) == Len(list) >= max_requests

\* mutant: an admitted request is not entered in the window
rate_limit_decide_unrecorded(list, now, max_requests, window_seconds) ==
    LET kept == Prune(list, now, window_seconds)
    IN  <<~LimitReached(kept, max_requests), kept>>

\* auth.py 246-261: the critical section as a function of the identity's list:
\* <<allowed, the list stored back>>
rate_limit_decide(list, now, max_requests, window_seconds) ==
    LET kept == Prune(list, now, window_seconds)
    IN  IF LimitReached(kept, max_requests)
        THEN <<FALSE, kept>>
        ELSE <<TRUE, Append(kept, now)>>

\* auth.py 240-244: a request enters the wrapper rate_limit(max_requests, ...)
\* made and reads time.time()
RateEnterWith(t, max_requests) ==
    /\ th[t].pc = "idle"
    /\ \E u \in Users \cup {NoUser} :
         IF u = NoUser
         THEN th' = [th EXCEPT ![t] = [Idle EXCEPT !.pc = "done", !.op = "rate",
                                                   !.limit = max_requests,
                                                   !.status = "401"]]
         ELSE th' = [th EXCEPT ![t] = [Idle EXCEPT !.pc = "rl_lock", !.op = "rate",
                                                   !.limit = max_requests,
                                                   !.user = u, !.now = clock]]
    /\ UNCHANGED <<clock, loginVars, verifyVars, rateVars, cooldownVars>>

\* app.py 163: an endpoint limited to Config.MAX_REQUESTS_PER_MINUTE
RateEnter(t) == RateEnterWith(t, RateMax)

\* app.py 204, 225, 247, 269, 288, 307: an endpoint limited to 100 per minute
RateEnterWide(t) == RateEnterWith(t, RateMaxWide)

\* mutant: the function rate_limit wraps is always the operation itself
AfterRateLimit_direct(op) == "action"

\* auth.py 263 and app.py 163-165: the function rate_limit wraps is
\* cooldown_required's wrapper for cast_line and the operation otherwise
AfterRateLimit(op) == IF op = "cast" THEN "cd_enter" ELSE "action"

\* auth.py 246-261: the critical section under _rate_limit_lock
RateLimitLocked(t) ==
    /\ th[t].pc = "rl_lock"
    /\ LET u == th[t].user
           now == th[t].now
           r == rate_limit_decide(rate_limit_storage[u], now, th[t].limit, RateWindow)
       IN  /\ rate_limit_storage' = [rate_limit_storage EXCEPT ![u] = r[2]]
           /\ IF r[1]
              THEN /\ admitted' = [admitted EXCEPT ![u][now] = @ + 1]
                   /\ th' = [th EXCEPT ![t].pc = AfterRateLimit(th[t].op),
                                       ![t].stamp = now,
                                       ![t].trail = Append(@, Step("rate", TRUE))]
              ELSE /\ th' = [th EXCEPT ![t].pc = "done", ![t].status = "429",
                                       ![t].trail = Append(@, Step("rate", FALSE))]
                   /\ UNCHANGED admitted
    /\ UNCHANGED <<clock, loginVars, verifyVars, cooldownVars>>

----------------------------------------------------------------------------
(* The wrapped function and the end of a request *)

\* mutant: a failed action takes the identity's stamp back
GuardedOutcome_rollback(storage, user_id, outcome) ==
    IF outcome = "200" THEN storage
    ELSE [u \in DOMAIN storage \ {user_id} |-> storage[u]]

\* auth.py 314-319: what the wrapper does to cooldown_storage once f returned
\* or raised: nothing
GuardedOutcome(storage, user_id, outcome) == storage

\* auth.py 263 / 314: f(*args, **kwargs) runs: it returns 200, returns an
\* error response (app.py 176-177, 198-200), or raises

GuardedAction(t) ==
    /\ th[t].pc = "action"
    /\ \E outcome \in {"200", "500", "raised"} :
         /\ th' = [th EXCEPT ![t].pc = "done", ![t].status = outcome,
                             ![t].trail = Append(@, Step("operation", TRUE))]
         /\ cooldown_storage' = GuardedOutcome(cooldown_storage, th[t].user, outcome)
    /\ UNCHANGED <<clock, loginVars, verifyVars, rateVars, passes>>

\* the response leaves; the thread serves the next request
Return(t) ==
    /\ th[t].pc = "done"
    /\ th' = [th EXCEPT ![t] = Idle]
    /\ UNCHANGED <<clock, loginVars, verifyVars, rateVars, cooldownVars>>

----------------------------------------------------------------------------
(* Protected requests *)

\* credentials a client presents to a protected endpoint: one valid for the
\* whole run, one that expires, one with a forged signature, one without a
\* subject, and no JWT
ValidToken == [form |-> "jwt", alg |-> Claim("HS256"), sig |-> "good",
               iss |-> Claim(SUPABASE_URL), exp |-> Claim(MaxTime + 1),
               sub |-> Claim("u1")]

RequestTokens == {ValidToken, [ValidToken EXCEPT !.exp = Claim(2)],
                  [ValidToken EXCEPT !.sig = "bad"],
                  [ValidToken EXCEPT !.sub = NoClaim], Garbage}

\* app.py 163 and 204: max_requests of the endpoint's rate_limit
EndpointLimit(op) == IF op = "cast" THEN RateMax ELSE RateMaxWide

\* the ways require_auth refuses a request: no Authorization header, a header
\* that is not "Bearer <token>", a token verify_token returns None for
AuthFailureKinds == {"absent", "malformed", "token"}

\* auth.py 144-145, 150-154, 158-159: the response of require_auth to each
AuthFailureResponse(kind) ==
    [status |-> "401",
     body |-> CASE kind = "absent" -> "No authorization header"
                [] kind = "malformed" -> "Invalid authorization header format"
                [] OTHER -> "Invalid or expired token"]

\* auth.py 142-154: a request to /api/cast or to another protected endpoint
\* enters require_auth's wrapper, which extracts the token from the header
RequireAuthEnter(t) ==
    /\ th[t].pc = "idle"
    /\ \E op \in {"cast", "inventory"}, header \in {"absent", "malformed", "bearer"} :
         IF header = "bearer"
         THEN th' = [th EXCEPT ![t] = [Idle EXCEPT !.pc = "auth_verify", !.op = op,
                                                   !.trail = <<Step("extract", TRUE)>>]]
         ELSE th' = [th EXCEPT ![t] = [Idle EXCEPT
                        !.pc = "done", !.op = op,
                        !.status = AuthFailureResponse(header).status,
                        !.body = AuthFailureResponse(header).body,
                        !.trail = <<Step("extract", FALSE)>>]]
    /\ UNCHANGED <<clock, verifyVars, rateVars, cooldownVars, loginVars>>

\* auth.py 156-166: verify_token(token), the 401 when it returns None, and
\* request.user_id = payload.get('sub')
RequireAuthVerify(t) ==
    /\ th[t].pc = "auth_verify"
    /\ LET r == verify_token(cred, clock, jwt_secret, supabase_url, token_blacklist)
           steps == IF is_token_blacklisted(cred, token_blacklist)
                    THEN <<Step("revocation", FALSE)>>
                    ELSE <<Step("revocation", TRUE), Step("verify", r.ok)>>
       IN  /\ vlast' = [called |-> TRUE, now |-> clock, revoked |-> cred \in revoked,
                        ok |-> r.ok, payload |-> r.payload, msg |-> r.msg]
           /\ IF r.ok
              THEN th' = [th EXCEPT ![t].pc = "rate_enter",
                                    ![t].user = Get(r.payload, "sub", ""),
                                    ![t].trail = @ \o steps]
              ELSE th' = [th EXCEPT ![t].pc = "done",
                                    ![t].status = AuthFailureResponse("token").status,
                                    ![t].body = AuthFailureResponse("token").body,
                                    ![t].trail = @ \o steps]
    /\ UNCHANGED <<clock, jwt_secret, supabase_url, cred, token_blacklist, revoked,
                   rateVars, cooldownVars, loginVars>>

\* auth.py 240-244: require_auth calls rate_limit's wrapper, which reads
\* time.time()
RateLimitEnter(t) ==
    /\ th[t].pc = "rate_enter"
    /\ th' = [th EXCEPT ![t].pc = "rl_lock", ![t].now = clock,
                        ![t].limit = EndpointLimit(th[t].op)]
    /\ UNCHANGED <<clock, verifyVars, rateVars, cooldownVars, loginVars>>

\* auth.py 296-301 and 271: rate_limit calls cooldown_required's wrapper;
\* check_cooldown reads time.time()
CooldownRequiredEnter(t) ==
    /\ th[t].pc = "cd_enter"
    /\ th' = [th EXCEPT ![t].pc = "cd_check", ![t].now = clock]
    /\ UNCHANGED <<clock, verifyVars, rateVars, cooldownVars, loginVars>>

\* auth.py 35-39: blacklist_token(token) called by a thread; kind notes
\* whether the credential had been revoked before
BlacklistTokenCall(t) ==
    /\ th[t].pc = "idle"
    /\ token_blacklist' = BlacklistAdd(token_blacklist, cred)
    /\ revoked' = revoked \cup {cred}
    /\ th' = [th EXCEPT ![t] = [Idle EXCEPT
                  !.pc = "done", !.op = "blacklist_token",
                  !.kind = IF cred \in revoked THEN "repeated" ELSE "first"]]
    /\ UNCHANGED <<clock, jwt_secret, supabase_url, cred, vlast, rateVars,
                   cooldownVars, loginVars>>

----------------------------------------------------------------------------
(* Login attempt guard *)

\* auth.py 28-29
LOGIN_MAX_ATTEMPTS == 5
LOGIN_LOCKOUT_SECONDS == 300

\* request.remote_addr and the 'email' of the request body
IpAddrs == {"a1"}
Emails == {"e1", "e2"}
\* data.get('email', '') when the body carries no email
NoEmail == ""

\* what a login record is kept for: a network origin or an account
Identifiers == ({"ip"} \X IpAddrs) \cup ({"email"} \X Emails)

\* mutant: every account shares one record
LoginKey_shared(kind, id) == IF kind = "email" THEN <<kind, "e1">> ELSE <<kind, id>>

\* auth.py 213-214: the keys f"ip:{client_ip}" and f"email:{email}"
LoginKey(kind, id) == <<kind, id>>

LoginKeys == {LoginKey(i[1], i[2]) : i \in Identifiers}

\* most failures recorded for one identifier between two clears, and most
\* failures on record for all identifiers together
LoginCap == LoginMax + 1
LoginTotalCap == LoginMax + 2

RECURSIVE TotalLen(_, _)
TotalLen(f, S) ==
    IF S = {} THEN 0
    ELSE LET i == CHOOSE x \in S : TRUE
         IN  Len(f[i]) + TotalLen(f, S \ {i})

MinOf(list) == CHOOSE x \in {list[i] : i \in DOMAIN list} :
                   \A i \in DOMAIN list : x <= list[i]

\* mutant: a key is locked only beyond the maximum
LockedOut_beyond(list, max_attempts) == Len(list) > max_attempts

\* auth.py 183
LockedOut(list, max_attempts) == Len(list) >= max_attempts

\* auth.py 175-188: check_login_attempts under _rate_limit_lock, on the list
\* kept for the identifier
check_login_attempts(list, now, max_attempts, lockout_seconds) ==
    LET kept == SelectSeq(list, LAMBDA attempt_time :
                                   now - attempt_time < lockout_seconds)
    IN  IF LockedOut(kept, max_attempts)
        THEN [allowed |-> FALSE,
              remaining |-> lockout_seconds - (now - MinOf(kept)),
              stored |-> kept]
        ELSE [allowed |-> TRUE, remaining |-> 0, stored |-> kept]

\* auth.py 171-173: check_login_attempts(identifier) is called and reads the time
LoginCheckEnter(t) ==
    /\ th[t].pc = "idle"
    /\ \E i \in Identifiers :
         th' = [th EXCEPT ![t] = [Idle EXCEPT !.pc = "lc_lock", !.op = "check",
                                              !.kind = i[1], !.id = i[2],
                                              !.now = clock]]
    /\ UNCHANGED <<clock, verifyVars, rateVars, cooldownVars, loginVars>>

\* auth.py 175-188
LoginCheckLocked(t) ==
    /\ th[t].pc = "lc_lock"
    /\ LET key == LoginKey(th[t].kind, th[t].id)
           r == check_login_attempts(login_attempts[key], th[t].now,
                                     LoginMax, LoginWindow)
       IN  /\ login_attempts' = [login_attempts EXCEPT ![key] = r.stored]
           /\ Respond(t, IF r.allowed THEN "Allowed" ELSE "Denied", r.remaining)
    /\ UNCHANGED <<clock, verifyVars, rateVars, cooldownVars, failures, exchanges>>

\* auth.py 194: the time recorded for a failed attempt
AttemptStamp(now) == now

\* auth.py 191-194: record_login_attempt(identifier)
RecordLoginAttempt(t) ==
    /\ th[t].pc = "idle"
    /\ \E i \in Identifiers :
         /\ Len(failures[i]) < LoginCap
         /\ TotalLen(failures, Identifiers) < LoginTotalCap
         /\ login_attempts' =
               [login_attempts EXCEPT ![LoginKey(i[1], i[2])] =
                                          Append(@, AttemptStamp(clock))]
         /\ failures' = [failures EXCEPT ![i] = Append(@, clock)]
         /\ th' = [th EXCEPT ![t] = [Idle EXCEPT !.pc = "done", !.op = "record",
                                                 !.kind = i[1], !.id = i[2]]]
    /\ UNCHANGED <<clock, verifyVars, rateVars, cooldownVars, exchanges>>

\* mutant: the record survives the clear
Cleared_kept(list) == list

\* auth.py 200
Cleared(list) == <<>>

\* auth.py 197-200: clear_login_attempts(identifier)
ClearLoginAttempts(t) ==
    /\ th[t].pc = "idle"
    /\ \E i \in Identifiers :
         /\ login_attempts' =
               [login_attempts EXCEPT ![LoginKey(i[1], i[2])] = Cleared(@)]
         /\ failures' = [failures EXCEPT ![i] = <<>>]
         /\ th' = [th EXCEPT ![t] = [Idle EXCEPT
                       !.pc = "done", !.op = "clear", !.kind = i[1], !.id = i[2],
                       !.dropped = Len(login_attempts[LoginKey(i[1], i[2])])]]
    /\ UNCHANGED <<clock, verifyVars, rateVars, cooldownVars, exchanges>>

\* mutant: only the network origin can block a login
LoginGuardOutcome_iponly(ip_allowed, ip_remaining, email_allowed, email_remaining) ==
    IF ~ip_allowed
    THEN [pc |-> "done", status |-> "429", remaining |-> ip_remaining]
    ELSE [pc |-> "login_f", status |-> "-", remaining |-> 0]

\* auth.py 216-230: what login_rate_limit does with the two results
LoginGuardOutcome(ip_allowed, ip_remaining, email_allowed, email_remaining) ==
    IF ~ip_allowed
    THEN [pc |-> "done", status |-> "429", remaining |-> ip_remaining]
    ELSE IF ~email_allowed
         THEN [pc |-> "done", status |-> "429", remaining |-> email_remaining]
         ELSE [pc |-> "login_f", status |-> "-", remaining |-> 0]

\* auth.py 207-213: a request enters login_rate_limit's wrapper; the check of
\* the origin's key reads the time
LoginGuardEnter(t) ==
    /\ th[t].pc = "idle"
    /\ \E a \in IpAddrs, e \in Emails \cup {NoEmail} :
         th' = [th EXCEPT ![t] = [Idle EXCEPT !.pc = "lg_ip_lock", !.op = "guard",
                                              !.ip = a, !.email = e,
                                              !.now = clock]]
    /\ UNCHANGED <<clock, verifyVars, rateVars, cooldownVars, loginVars>>

\* auth.py 213-214 (175-188 for the origin's key); without an email the second
\* result is (True, 0) and lines 216-230 follow
LoginGuardIpLocked(t) ==
    /\ th[t].pc = "lg_ip_lock"
    /\ LET key == LoginKey("ip", th[t].ip)
           r == check_login_attempts(login_attempts[key], th[t].now,
                                     LoginMax, LoginWindow)
           o == LoginGuardOutcome(r.allowed, r.remaining, TRUE, 0)
       IN  /\ login_attempts' = [login_attempts EXCEPT ![key] = r.stored]
           /\ IF th[t].email = NoEmail
              THEN th' = [th EXCEPT ![t].pc = o.pc, ![t].status = o.status,
                                    ![t].remaining = o.remaining,
                                    ![t].ip_allowed = r.allowed,
                                    ![t].ip_remaining = r.remaining,
                                    ![t].email_allowed = TRUE,
                                    ![t].trail = Append(@, Step("ip", r.allowed))]
              ELSE th' = [th EXCEPT ![t].pc = "lg_email_now",
                                    ![t].ip_allowed = r.allowed,
                                    ![t].ip_remaining = r.remaining,
                                    ![t].trail = Append(@, Step("ip", r.allowed))]
    /\ UNCHANGED <<clock, verifyVars, rateVars, cooldownVars, failures, exchanges>>

\* auth.py 214 (173): the check of the account's key reads the time
LoginGuardEmailNow(t) ==
    /\ th[t].pc = "lg_email_now"
    /\ th' = [th EXCEPT ![t].pc = "lg_email_lock", ![t].now = clock]
    /\ UNCHANGED <<clock, verifyVars, rateVars, cooldownVars, loginVars>>

\* auth.py 214 (175-188 for the account's key), then 216-230
LoginGuardEmailLocked(t) ==
    /\ th[t].pc = "lg_email_lock"
    /\ LET key == LoginKey("email", th[t].email)
           r == check_login_attempts(login_attempts[key], th[t].now,
                                     LoginMax, LoginWindow)
           o == LoginGuardOutcome(th[t].ip_allowed, th[t].ip_remaining,
                                  r.allowed, r.remaining)
       IN  /\ login_attempts' = [login_attempts EXCEPT ![key] = r.stored]
           /\ th' = [th EXCEPT ![t].pc = o.pc, ![t].status = o.status,
                               ![t].remaining = o.remaining,
                               ![t].email_allowed = r.allowed,
                               ![t].trail = Append(@, Step("email", r.allowed))]
    /\ UNCHANGED <<clock, verifyVars, rateVars, cooldownVars, failures, exchanges>>

\* auth.py 230: the function login_rate_limit wraps runs and answers
LoginWrapped(t) ==
    /\ th[t].pc = "login_f"
    /\ \E status \in {"200", "401"} :
         th' = [th EXCEPT ![t].pc = "done", ![t].status = status,
                          ![t].trail = Append(@, Step("login", TRUE))]
    /\ UNCHANGED <<clock, verifyVars, rateVars, cooldownVars, loginVars>>

----------------------------------------------------------------------------
(* Login route *)

\* the latest LOGIN_MAX_ATTEMPTS entries
LatestAttempts(list) == IF Len(list) > LOGIN_MAX_ATTEMPTS THEN Tail(list) ELSE list

\* app.py 121-130: POST /api/auth/login reads the body; 400 without an email
\* or a password
LoginRouteEnter(t) ==
    /\ th[t].pc = "idle"
    /\ \E e \in Emails \cup {NoEmail}, password \in BOOLEAN :
         IF e = NoEmail \/ ~password
         THEN th' = [th EXCEPT ![t] = [Idle EXCEPT !.pc = "done", !.op = "login",
                                                   !.email = e, !.status = "400"]]
         ELSE th' = [th EXCEPT ![t] = [Idle EXCEPT !.pc = "sign_in", !.op = "login",
                                                   !.email = e]]
    /\ UNCHANGED <<clock, verifyVars, rateVars, cooldownVars, loginVars>>

\* app.py 133-155: supabase.auth.sign_in_with_password answers with a session
\* (200), without one (401), or raises (400)
SignIn(t) ==
    /\ th[t].pc = "sign_in"
    /\ \E outcome \in {"session", "no session", "raised"} :
         /\ th' = [th EXCEPT ![t].pc = "done",
                             ![t].status = CASE outcome = "session" -> "200"
                                             [] outcome = "no session" -> "401"
                                             [] OTHER -> "400",
                             ![t].trail = Append(@, Step("sign_in", TRUE))]
         /\ exchanges' = IF outcome = "no session"
                         THEN [exchanges EXCEPT ![th[t].email] =
                                                    LatestAttempts(Append(@, clock))]
                         ELSE exchanges
    /\ UNCHANGED <<clock, verifyVars, rateVars, cooldownVars, login_attempts, failures>>

----------------------------------------------------------------------------
(* Clock *)

Tick ==
    /\ clock < MaxTime
    /\ clock' = clock + 1
    /\ UNCHANGED <<verifyVars, rateVars, cooldownVars, loginVars, th>>

----------------------------------------------------------------------------
(* Specifications *)

NoStamps == [u \in {} |-> 0]

InitCommon ==
    /\ clock = 1
    /\ token_blacklist = {}
    /\ revoked = {}
    /\ vlast = NoCall
    /\ rate_limit_storage = [u \in Users |-> <<>>]
    /\ admitted = [u \in Users |-> [x \in 1..MaxTime |-> 0]]
    /\ cooldown_storage = NoStamps
    /\ passes = [u \in Users |-> <<>>]
    /\ login_attempts = [k \in LoginKeys |-> <<>>]
    /\ failures = [i \in Identifiers |-> <<>>]
    /\ exchanges = [e \in Emails |-> <<>>]
    /\ th = [t \in Threads |-> Idle]

\* the verifier under each way the signing secret can be configured
InitVerify ==
    /\ InitCommon
    /\ jwt_secret \in SecretModes
    /\ supabase_url \in UrlModes
    /\ cred \in Tokens

NextVerify == BlacklistToken \/ VerifyToken \/ Tick

SpecVerify == InitVerify /\ [][NextVerify]_vars

\* requests that do not look at the credential
InitGuards ==
    /\ InitCommon
    /\ jwt_secret = "undefined"
    /\ supabase_url = "set"
    /\ cred = Garbage

NextCooldown ==
    \/ Tick
    \/ \E t \in Threads :
         CooldownEnter(t) \/ CheckCooldown(t) \/ SetCooldown(t)
            \/ GuardedAction(t) \/ Return(t)

SpecCooldown == InitGuards /\ [][NextCooldown]_vars

NextCooldownSeq ==
    \/ Tick
    \/ \E t \in SeqThreads :
         CooldownEnter(t) \/ CheckCooldown(t) \/ SetCooldown(t)
            \/ GuardedAction(t) \/ Return(t)

SpecCooldownSeq == InitGuards /\ [][NextCooldownSeq]_vars

NextRate ==
    \/ Tick
    \/ \E t \in Threads :
         RateEnter(t) \/ RateLimitLocked(t) \/ GuardedAction(t) \/ Return(t)

SpecRate == InitGuards /\ [][NextRate]_vars

NextRateSeq ==
    \/ Tick
    \/ \E t \in SeqThreads :
         RateEnter(t) \/ RateLimitLocked(t) \/ GuardedAction(t) \/ Return(t)

SpecRateSeq == InitGuards /\ [][NextRateSeq]_vars

\* one request at a time, to endpoints with either limit
NextEndpointsSeq ==
    \/ Tick
    \/ \E t \in SeqThreads :
         RateEnter(t) \/ RateEnterWide(t) \/ RateLimitLocked(t)
            \/ GuardedAction(t) \/ Return(t)

SpecEndpointsSeq == InitGuards /\ [][NextEndpointsSeq]_vars

\* the login attempt guard and the three functions of its record, one call
\* at a time
NextLoginSeq ==
    \/ Tick
    \/ \E t \in SeqThreads :
         \/ LoginCheckEnter(t) \/ LoginCheckLocked(t)
         \/ RecordLoginAttempt(t) \/ ClearLoginAttempts(t)
         \/ LoginGuardEnter(t) \/ LoginGuardIpLocked(t)
         \/ LoginGuardEmailNow(t) \/ LoginGuardEmailLocked(t)
         \/ LoginWrapped(t) \/ Return(t)

SpecLoginSeq == InitGuards /\ [][NextLoginSeq]_vars

\* verify_token with Config as config.py defines it
InitShipped ==
    /\ InitCommon
    /\ jwt_secret = "undefined"
    /\ supabase_url \in UrlModes
    /\ cred \in Tokens

SpecShipped == InitShipped /\ [][NextVerify]_vars

\* protected requests, one at a time, under each configuration
InitRequests ==
    /\ InitCommon
    /\ jwt_secret \in SecretModes
    /\ supabase_url \in UrlModes
    /\ cred \in RequestTokens

NextRequestsSeq ==
    \/ Tick
    \/ BlacklistToken
    \/ \E t \in SeqThreads :
         \/ RequireAuthEnter(t) \/ RequireAuthVerify(t)
         \/ RateLimitEnter(t) \/ RateLimitLocked(t)
         \/ CooldownRequiredEnter(t) \/ CheckCooldown(t) \/ SetCooldown(t)
         \/ GuardedAction(t) \/ Return(t)

SpecRequestsSeq == InitRequests /\ [][NextRequestsSeq]_vars

\* the revocation registry and the verifier, one call at a time
NextRevocationSeq ==
    \/ Tick
    \/ VerifyToken
    \/ \E t \in SeqThreads : BlacklistTokenCall(t) \/ Return(t)

SpecRevocationSeq == InitRequests /\ [][NextRevocationSeq]_vars

\* the login route as app.py registers it
NextLoginRoute ==
    \/ Tick
    \/ \E t \in SeqThreads : LoginRouteEnter(t) \/ SignIn(t) \/ Return(t)

SpecLoginRoute == InitGuards /\ [][NextLoginRoute]_vars

----------------------------------------------------------------------------
(* Claims about the token verifier and the revocation registry (SpecVerify) *)

\* the credential's claims alone would let it through at the time of the call
ClaimsValidAt(tok, now) ==
    /\ tok.form = "jwt"
    /\ tok.iss = Claim(SUPABASE_URL)
    /\ tok.exp # NoClaim /\ tok.exp[1] > now
    /\ tok.sub = Claim("u1")

\* C3: once blacklist_token(c) has returned, every verify_token(c) that starts
\* afterwards returns no identity, whatever c's signature, algorithm, expiry,
\* issuer and subject are and however the secret is configured.
C3_RevokedIsRejected == (vlast.called /\ vlast.revoked) => ~vlast.ok

\* C3 witness: a credential that is valid in every other respect, signature
\* checked, was verified after its revocation.
C3_Witness ==
    /\ vlast.called /\ vlast.revoked
    /\ jwt_secret = "set"
    /\ cred.alg = Claim("HS256") /\ cred.sig = "good"
    /\ ClaimsValidAt(cred, vlast.now)
    /\ verify_token(cred, vlast.now, jwt_secret, supabase_url, {}).ok

DeclaresNone(tok) ==
    tok.form = "jwt" /\ tok.alg \in {Claim("none"), Claim("None"), Claim("NONE")}

\* C4: a credential whose header declares the algorithm "none", in any letter
\* case, is rejected by verify_token with a secret configured and without one,
\* also when it is unexpired, from the expected issuer and has a subject.
C4_NoneIsRejected == (vlast.called /\ DeclaresNone(cred)) => ~vlast.ok

\* C4 witness: a mixed-case "None" credential with valid claims, not revoked,
\* went through the fallback path.
C4_Witness ==
    /\ vlast.called /\ ~vlast.revoked
    /\ jwt_secret = "empty"
    /\ cred.alg = Claim("None")
    /\ ClaimsValidAt(cred, vlast.now)

\* C5 (as claimed): verify_token rejects every credential whose declared
\* algorithm is not HS256, also when no signing secret is configured.
C5_OnlyHS256Accepted ==
    (vlast.called /\ cred.alg # Claim("HS256")) => ~vlast.ok

\* C6 (as claimed): a credential whose expiry is missing or is at or before the
\* time of the call (exp = now included) is never accepted, in either path.
C6_ExpiredIsRejected ==
    (vlast.called /\ (cred.exp = NoClaim \/ cred.exp[1] <= vlast.now)) => ~vlast.ok

\* issuers of the model that neither equal nor contain Config.SUPABASE_URL
ForeignIssuers == {Claim(<<"s">>), Claim(<<"b", "s">>)}

\* C7: a credential whose issuer claim is missing, empty, or neither equals nor
\* contains Config.SUPABASE_URL is rejected by verify_token.
C7_BadIssuerIsRejected ==
    (vlast.called /\ cred.iss \in {NoClaim, Claim(<<>>)} \cup ForeignIssuers)
        => ~vlast.ok

\* C7 witness: a correctly signed, unexpired HS256 credential with a subject,
\* not revoked, whose issuer is a proper part of the expected one.
C7_Witness ==
    /\ vlast.called /\ ~vlast.revoked
    /\ jwt_secret = "set"
    /\ cred.form = "jwt" /\ cred.alg = Claim("HS256") /\ cred.sig = "good"
    /\ cred.iss = Claim(<<"s">>)
    /\ cred.exp # NoClaim /\ cred.exp[1] > vlast.now
    /\ cred.sub = Claim("u1")

----------------------------------------------------------------------------
(* Claims about the cooldown guard (SpecCooldown, SpecCooldownSeq) *)

\* C1 (as claimed): for one identity no two requests pass the cooldown check
\* within one cooldown interval, under any interleaving: any two Allowed
\* decisions for the same identity lie at least CAST_COOLDOWN_SECONDS apart
\* (the clock never runs backwards, so it is enough to look at each Allowed
\* and the one before it).
C1_OneAllowedPerInterval ==
    \A u \in Users : \A i, j \in DOMAIN passes[u] :
        i < j => passes[u][j] - passes[u][i] >= CAST_COOLDOWN_SECONDS

C8_Decision ==
    \A t \in SeqThreads :
        LET r == th[t]
            u == r.user
            cd == CAST_COOLDOWN_SECONDS
        IN  /\ (r.pc = "done" /\ r.status = "429") =>
                  /\ u \in DOMAIN cooldown_storage
                  /\ r.now - cooldown_storage[u] < cd
                  /\ r.remaining = cd - (r.now - cooldown_storage[u])
                  /\ 0 < r.remaining /\ r.remaining <= cd
            /\ r.pc = "cd_set" =>
                  \/ u \notin DOMAIN cooldown_storage
                  \/ r.now - cooldown_storage[u] >= cd

C8_StampIsNow ==
    \A t \in SeqThreads :
        (th[t].pc = "cd_set" /\ th'[t].pc = "action") =>
            /\ th[t].user \in DOMAIN cooldown_storage'
            /\ cooldown_storage'[th[t].user] = clock

\* C8: with one request at a time, a cooldown check at time t for an identity
\* whose stamp is s is Denied exactly when t - s < cooldownSeconds, with
\* remaining = cooldownSeconds - (t - s) and 0 < remaining <= cooldownSeconds;
\* it is Allowed when there is no stamp or t - s >= cooldownSeconds, and an
\* Allowed request sets the stamp to the current time.
C8_SequentialCooldown == []C8_Decision /\ [][C8_StampIsNow]_vars

\* C8 witness: a request one second after the stamp was denied with one second
\* remaining.
C8_Witness ==
    /\ th["t1"].pc = "done" /\ th["t1"].status = "429"
    /\ th["t1"].remaining = 1
    /\ th["t1"].now = cooldown_storage[th["t1"].user] + 1

Ran(r) == r.pc = "done" /\ r.status \in {"200", "500", "raised"}
Failed(r) == r.pc = "done" /\ r.status \in {"500", "raised"}

C9_StampStands ==
    \A t \in Threads :
        LET r == th[t]
            u == r.user
            cd == CAST_COOLDOWN_SECONDS
        IN  (r.pc = "action" \/ Ran(r)) =>
               /\ u \in DOMAIN cooldown_storage
               /\ cooldown_storage[u] >= r.now
               /\ \A x \in cooldown_storage[u]..(cooldown_storage[u] + cd - 1) :
                     ~check_cooldown(cooldown_storage, u, x, cd)[1]

C9_NoRollback ==
    \A t \in Threads :
        (th[t].pc = "action" /\ th'[t].pc = "done") =>
            cooldown_storage' = cooldown_storage

\* C9: in cooldown_required the stamp is written before the guarded action
\* starts and is not rolled back: while the action runs and after it returned,
\* failed or raised, the identity has a stamp no older than the request, the
\* end of the action leaves cooldown_storage as it is, and a check for the
\* identity less than cooldownSeconds after the stamp is Denied.
C9_StampBeforeActionAndKept == []C9_StampStands /\ [][C9_NoRollback]_vars

\* C9 witness: one request's action failed, and a request of the same identity
\* that read its time at or after the stamp was denied.
C9_Witness ==
    \E t1, t2 \in Threads :
        /\ t1 # t2
        /\ Failed(th[t1])
        /\ th[t2].pc = "done" /\ th[t2].status = "429"
        /\ th[t2].user = th[t1].user
        /\ th[t2].now >= cooldown_storage[th[t1].user]

----------------------------------------------------------------------------
(* Claims about the rate limiter (SpecRate, SpecRateSeq) *)

RECURSIVE CountIn(_, _, _)
\* how many requests the history f admitted at the times lo..hi
CountIn(f, lo, hi) == IF lo > hi THEN 0 ELSE f[lo] + CountIn(f, lo + 1, hi)

Max2(a, b) == IF a > b THEN a ELSE b
Min2(a, b) == IF a < b THEN a ELSE b

\* C2 (as claimed): under concurrent rate_limit calls for one identity the
\* admitted timestamps that lie within any interval of length windowSeconds
\* number at most maxRequests.
C2_WindowNeverExceeded ==
    \A u \in Users : \A s \in 1..MaxTime :
        CountIn(admitted[u], s, Min2(s + RateWindow - 1, MaxTime)) <= RateMax

RECURSIVE Decisions(_, _, _, _)
\* the decisions of rate_limit for one identity called at the given times
Decisions(list, times, max_requests, window_seconds) ==
    IF times = <<>> THEN <<>>
    ELSE LET r == rate_limit_decide(list, Head(times), max_requests, window_seconds)
         IN  <<r[1]>> \o Decisions(r[2], Tail(times), max_requests, window_seconds)

C10_Scenario ==
    Decisions(<<>>, <<0, 1, 2, 3, 61>>, 3, 60) = <<TRUE, TRUE, TRUE, FALSE, TRUE>>

\* requests admitted for u, this one included, with now - t < RateWindow
AdmittedInWindow(u, now) ==
    CountIn(admitted[u], Max2(1, now - RateWindow + 1), now)

\* C10: with one request at a time, a rate_limit call is Allowed, and appends
\* its time to the identity's window, if and only if fewer than maxRequests
\* previously admitted timestamps are left after pruning, and is Denied
\* otherwise; with maxRequests=3 and windowSeconds=60 the calls at t=0,1,2 are
\* Allowed, t=3 is Denied and t=61 is Allowed.
C10_AdmissionRule ==
    /\ C10_Scenario
    /\ \A t \in SeqThreads :
          LET r == th[t]
              u == r.user
          IN  /\ (r.pc = "action" \/ Ran(r)) =>
                    /\ AdmittedInWindow(u, r.now) - 1 < RateMax
                    /\ rate_limit_storage[u] # <<>>
                    /\ rate_limit_storage[u][Len(rate_limit_storage[u])] = r.now
              /\ (r.pc = "done" /\ r.status = "429") =>
                    AdmittedInWindow(u, r.now) >= RateMax

\* C10 witness: a request was denied for an identity that had been admitted
\* more than RateMax times before, so earlier admissions had aged out.
C10_Witness ==
    /\ th["t1"].pc = "done" /\ th["t1"].status = "429"
    /\ CountIn(admitted[th["t1"].user], 1, MaxTime) > RateMax

\* C11 (as claimed): a rate_limit call that returns Denied leaves every
\* identity's stored timestamp sequence as it was.
C11_DeniedLeavesStorage ==
    [][\A t \in Threads :
          (th[t].pc = "rl_lock" /\ th'[t].pc = "done") =>
              rate_limit_storage' = rate_limit_storage]_vars

\* the stored timestamps of the list within lo..hi
StoredWithin(list, lo, hi) ==
    Cardinality({i \in DOMAIN list : lo <= list[i] /\ list[i] <= hi})

\* C12 (as claimed): the call counts exactly the stored timestamps in the
\* closed interval [now - windowSeconds, now]: it is Allowed if and only if
\* fewer than max_requests of them lie there.
C12_ClosedWindowCounted ==
    [][\A t \in Threads :
          th[t].pc = "rl_lock" /\ th'[t].pc # "rl_lock" =>
              (th'[t].pc = "action" <=>
                  StoredWithin(rate_limit_storage[th[t].user],
                               th[t].now - RateWindow, th[t].now) < th[t].limit)]_vars

\* the entries of the list newer than now - window_seconds, in order
NewerThan(list, bound) == SelectSeq(list, LAMBDA x : x > bound)

C12_Step ==
    \A t \in Threads :
        th[t].pc = "rl_lock" /\ th'[t].pc # "rl_lock" =>
            LET list == rate_limit_storage[th[t].user]
                kept == NewerThan(list, th[t].now - RateWindow)
                allowed == th'[t].pc = "action"
            IN  /\ allowed <=> Len(kept) < th[t].limit
                /\ rate_limit_storage'[th[t].user] =
                      IF allowed THEN Append(kept, th[t].now) ELSE kept

\* C12 (amended): the call counts exactly the stored timestamps t with
\* now - t < windowSeconds, that is those newer than now - windowSeconds: a
\* timestamp exactly windowSeconds old is dropped and no longer counted, every
\* newer one is kept and counted, so a burst of max_requests admissions does
\* not replenish before the oldest of them is windowSeconds old.
C12_HalfOpenWindowCounted == [][C12_Step]_vars

\* C12 witness: a request was admitted exactly RateWindow after a burst that
\* had used the whole limit.
C12_Witness ==
    \E t \in Threads :
        /\ th[t].pc = "action" /\ th[t].op = "rate"
        /\ th[t].now > RateWindow
        /\ admitted[th[t].user][th[t].now - RateWindow] = th[t].limit

\* the identifier has at least LoginMax failures on record that are less than
\* LoginWindow old at the given time
Locked(i, now) ==
    Cardinality({k \in DOMAIN failures[i] :
                    failures[i][k] + LoginWindow > now}) >= LoginMax

\* five failures at 1..5 lock the key until the failure of time 1 is 300 old
C13_Scenario ==
    LET N == LOGIN_MAX_ATTEMPTS
        W == LOGIN_LOCKOUT_SECONDS
        five == <<1, 2, 3, 4, 5>>
    IN  /\ check_login_attempts(<<1, 2, 3, 4>>, 5, N, W).allowed
        /\ ~check_login_attempts(five, 5, N, W).allowed
        /\ ~check_login_attempts(five, 6, N, W).allowed
        /\ check_login_attempts(five, 6, N, W).remaining = 295
        /\ ~check_login_attempts(five, 300, N, W).allowed
        /\ check_login_attempts(five, 300, N, W).remaining = 1
        /\ check_login_attempts(five, 301, N, W).allowed
        /\ check_login_attempts(five, 301, N, W).stored = <<2, 3, 4, 5>>
        /\ ~check_login_attempts(<<1, 2, 3, 4, 5, 6>>, 301, N, W).allowed

\* what the last check of the thread answered, for which identifier, at which
\* time: <<>> when none has answered yet
LastCheck(r) ==
    CASE r.op = "check" /\ r.pc = "done" ->
            <<[i |-> <<r.kind, r.id>>, allowed |-> r.status = "Allowed"]>>
      [] r.op = "guard" /\ r.pc = "lg_email_now" ->
            <<[i |-> <<"ip", r.ip>>, allowed |-> r.ip_allowed]>>
      [] r.op = "guard" /\ r.pc \in {"login_f", "done"} /\ r.email = NoEmail ->
            <<[i |-> <<"ip", r.ip>>, allowed |-> r.ip_allowed]>>
      [] r.op = "guard" /\ r.pc \in {"login_f", "done"} /\ r.email # NoEmail ->
            <<[i |-> <<"email", r.email>>, allowed |-> r.email_allowed]>>
      [] OTHER -> <<>>

\* C13: with one call at a time, check_login_attempts(key) is Denied exactly
\* while at least LOGIN_MAX_ATTEMPTS failures recorded for the key are less
\* than LOGIN_LOCKOUT_SECONDS old: from the moment the count reaches the
\* maximum until the oldest of them has left the window, and Allowed again
\* afterwards if no new failure was recorded. With 5 and 300: failures at
\* 1..5 are Denied up to time 300 and Allowed at 301.
C13_LockoutRule ==
    /\ C13_Scenario
    /\ \A t \in SeqThreads :
          \A k \in DOMAIN LastCheck(th[t]) :
              LET c == LastCheck(th[t])[k]
              IN  c.allowed <=> ~Locked(c.i, th[t].now)

\* C13 witness: a check is Allowed for a key that has LoginMax failures on
\* record: the lockout has expired.
C13_Witness ==
    \E t \in SeqThreads :
        /\ th[t].op = "check" /\ th[t].pc = "done" /\ th[t].status = "Allowed"
        /\ Len(failures[<<th[t].kind, th[t].id>>]) >= LoginMax

\* C14 (as claimed): the login operation does not reach the credential
\* exchange for an account that had LOGIN_MAX_ATTEMPTS failed exchanges within
\* the trailing LOGIN_LOCKOUT_SECONDS: that attempt is rejected before it.
C14_LockedAccountNotExchanged ==
    \A t \in SeqThreads :
        th[t].pc = "sign_in" =>
            LET past == exchanges[th[t].email]
            IN  ~(/\ Len(past) >= LOGIN_MAX_ATTEMPTS
                  /\ clock - past[1] < LOGIN_LOCKOUT_SECONDS)

InTrail(r, step) == \E k \in DOMAIN r.trail : r.trail[k][1] = step

\* C15: the wrapped login runs only if the check of the origin's key and, when
\* an email is submitted, the check of the account's key were both Allowed; if
\* either was Denied the response is 429 and the wrapped function has not run.
C15_BothChecksAllowed ==
    \A t \in SeqThreads :
        LET r == th[t]
        IN  r.op = "guard" /\ r.pc \in {"login_f", "done"} =>
              /\ InTrail(r, "ip")
              /\ r.email # NoEmail => InTrail(r, "email")
              /\ (r.pc = "login_f" \/ InTrail(r, "login")) =>
                    r.ip_allowed /\ r.email_allowed
              /\ ~(r.ip_allowed /\ r.email_allowed) =>
                    /\ r.pc = "done" /\ r.status = "429" /\ r.remaining > 0
                    /\ ~InTrail(r, "login")

\* C15 witness: the origin's key was Allowed, the account's key Denied, and
\* the request was answered 429.
C15_Witness ==
    \E t \in SeqThreads :
        /\ th[t].op = "guard" /\ th[t].pc = "done" /\ th[t].status = "429"
        /\ th[t].ip_allowed /\ ~th[t].email_allowed

\* the identifiers whose record the step of thread t works on
Touched(t) ==
    CASE th[t].pc = "idle" /\ th'[t].op \in {"record", "clear"} ->
            {<<th'[t].kind, th'[t].id>>}
      [] th[t].pc = "lc_lock" -> {<<th[t].kind, th[t].id>>}
      [] th[t].pc = "lg_ip_lock" -> {<<"ip", th[t].ip>>}
      [] th[t].pc = "lg_email_lock" -> {<<"email", th[t].email>>}
      [] OTHER -> {}

\* what check_login_attempts would answer for the identifier now
WouldAllow(attempts, i) ==
    check_login_attempts(attempts[LoginKey(i[1], i[2])], clock,
                         LoginMax, LoginWindow).allowed

C16_Frame ==
    \A t \in SeqThreads :
        \A j \in Identifiers \ Touched(t) :
            /\ login_attempts'[LoginKey(j[1], j[2])] =
                  login_attempts[LoginKey(j[1], j[2])]
            /\ WouldAllow(login_attempts', j) <=> WouldAllow(login_attempts, j)

C16_OwnRecordsDecide ==
    \A t \in SeqThreads :
        LET r == th[t]
        IN  r.op = "guard" /\ r.pc = "done" /\ r.status = "429" =>
               \/ Len(failures[<<"ip", r.ip>>]) >= LoginMax
               \/ r.email # NoEmail /\ Len(failures[<<"email", r.email>>]) >= LoginMax

\* C16: recording a failure for, clearing or checking one identifier leaves
\* the record and the check result of every other account and of the network
\* origin as they were, and a guarded login is blocked only if its own
\* account or its own origin has LOGIN_MAX_ATTEMPTS failures on record,
\* whatever is recorded for other accounts.
C16_RecordsIndependent == []C16_OwnRecordsDecide /\ [][C16_Frame]_vars

\* C16 witness: a login for one account proceeds from an origin while another
\* account is locked out.
C16_Witness ==
    \E t \in SeqThreads :
        /\ th[t].op = "guard" /\ th[t].pc = "login_f" /\ th[t].email # NoEmail
        /\ \E e \in Emails \ {th[t].email} : Locked(<<"email", e>>, clock)

\* C17: clear_login_attempts(key) leaves no failure on record for the key, so
\* a check made right after it is Allowed whatever was recorded before; and a
\* check is Denied only when LOGIN_MAX_ATTEMPTS failures were recorded for the
\* key since it was last cleared.
C17_ClearResets ==
    \A t \in SeqThreads :
        LET r == th[t]
        IN  /\ r.op = "clear" /\ r.pc = "done" =>
                /\ login_attempts[LoginKey(r.kind, r.id)] = <<>>
                /\ WouldAllow(login_attempts, <<r.kind, r.id>>)
            /\ \A k \in DOMAIN LastCheck(r) :
                  ~LastCheck(r)[k].allowed =>
                      Len(failures[LastCheck(r)[k].i]) >= LoginMax

\* C17 witness: a key that had reached the maximum was cleared.
C17_Witness ==
    \E t \in SeqThreads :
        /\ th[t].op = "clear" /\ th[t].pc = "done"
        /\ th[t].dropped >= LoginMax

\* the configuration or the credential makes a step of verify_token raise:
\* Config defines no SUPABASE_JWT_SECRET, the token cannot be decoded, a
\* required claim is missing, or Config.SUPABASE_URL is None when the issuer is
\* looked up in it
Faulty ==
    \/ jwt_secret = "undefined"
    \/ cred.form # "jwt"
    \/ jwt_secret = "set" /\ JwtDecodeVerified(cred, clock) = "MissingRequiredClaimError"
    \/ supabase_url = "unset" /\ cred.iss \notin {NoClaim, Claim(<<>>)}

\* C18: when a step of verify_token raises (missing or invalid configuration,
\* undecodable token, library exception) verify_token returns no identity, and
\* the request it was called for is answered 401: no identity is set and
\* neither the guards behind require_auth nor the operation run.
C18_FailClosed ==
    Faulty =>
        /\ vlast.called => ~vlast.ok /\ vlast.payload = NoPayload
        /\ \A t \in SeqThreads :
              LET r == th[t]
              IN  /\ r.user = NoUser
                  /\ ~InTrail(r, "rate") /\ ~InTrail(r, "cooldown")
                  /\ ~InTrail(r, "operation")
                  /\ InTrail(r, "verify") => r.pc = "done" /\ r.status = "401"

\* C18 witness: a credential valid in every respect was presented while Config
\* defines no signing secret, and the request was answered 401.
C18_Witness ==
    /\ jwt_secret = "undefined" /\ supabase_url = "set" /\ cred = ValidToken
    /\ \E t \in SeqThreads :
          /\ InTrail(th[t], "verify")
          /\ th[t].pc = "done" /\ th[t].status = "401"

\* C19 (as claimed): under the repository's configuration a credential that is
\* well-formed, not revoked, HS256, correctly signed, unexpired, issued by the
\* configured issuer and has a non-blank subject is accepted, and the identity
\* carries its subject.
C19_ValidIsAccepted ==
    (/\ vlast.called /\ ~vlast.revoked
     /\ supabase_url = "set"
     /\ cred.form = "jwt" /\ cred.alg = Claim("HS256") /\ cred.sig = "good"
     /\ cred.iss = Claim(SUPABASE_URL)
     /\ cred.exp # NoClaim /\ cred.exp[1] > vlast.now
     /\ cred.sub \notin {NoClaim, Claim("")})
    => (vlast.ok /\ Claim(Get(vlast.payload, "sub", "")) = cred.sub)

\* the steps of a protected request, in the order the decorators run them
FullTrail(op) ==
    IF op = "cast"
    THEN <<"extract", "revocation", "verify", "rate", "cooldown", "operation">>
    ELSE <<"extract", "revocation", "verify", "rate", "operation">>

\* the trail is the first n steps, all passed, or the first n passed and step
\* n + 1 failed
PassedUpTo(trail, full, n) ==
    /\ Len(trail) = n
    /\ \A k \in 1..n : trail[k] = <<full[k], TRUE>>

StoppedAt(trail, full, n) ==
    /\ Len(trail) = n + 1
    /\ \A k \in 1..n : trail[k] = <<full[k], TRUE>>
    /\ trail[n + 1] = <<full[n + 1], FALSE>>

\* C20: a protected request evaluates credential extraction, the revocation
\* check, token verification, the rate limiter and (for /api/cast) the cooldown
\* guard in this order, each only after the one before it passed; the
\* operation runs only after all of them passed; a request stopped by a guard
\* is answered 401 or 429 with no later guard evaluated and the operation not
\* run.
C20_PipelineOrder ==
    \A t \in SeqThreads :
        LET r == th[t]
            full == FullTrail(r.op)
        IN  r.op \in {"cast", "inventory"} =>
              /\ \E n \in 0..Len(full) :
                    \/ PassedUpTo(r.trail, full, n)
                    \/ /\ n < Len(full)
                       /\ StoppedAt(r.trail, full, n)
                       /\ r.pc = "done" /\ r.status \in {"401", "429"}
              /\ r.pc = "action" => PassedUpTo(r.trail, full, Len(full) - 1)
              /\ InTrail(r, "operation") => PassedUpTo(r.trail, full, Len(full))

\* C20 witness: a request to /api/cast ran the operation after every guard.
C20_Witness ==
    \E t \in SeqThreads :
        /\ th[t].op = "cast" /\ InTrail(th[t], "operation")

\* the request was refused by require_auth
AuthorizationFailed(r) ==
    /\ r.op \in {"cast", "inventory"} /\ r.pc = "done"
    /\ ~InTrail(r, "rate")

\* C21 (as claimed): the response to a request that fails authorization is
\* the response to a failure of every other kind: one status, 401, and one
\* error body, whatever the reason.
C21_OneFailureResponse ==
    \A t \in SeqThreads :
        AuthorizationFailed(th[t]) =>
            \A kind \in AuthFailureKinds :
                /\ th[t].status = AuthFailureResponse(kind).status
                /\ th[t].body = AuthFailureResponse(kind).body

C24_AfterEveryCall ==
    \A t \in SeqThreads :
        th[t].op = "blacklist_token" /\ th[t].pc = "done" =>
            /\ token_blacklist = {get_token_hash(cred)}
            /\ is_token_blacklisted(cred, token_blacklist)
            /\ ~verify_token(cred, clock, jwt_secret, supabase_url,
                             token_blacklist).ok

\* C24: after the first blacklist_token(c) the revocation set holds c's
\* fingerprint and nothing else, and a second or later call leaves it so:
\* is_token_blacklisted(c) stays true and verify_token(c) keeps returning no
\* identity.
C24_RevocationIdempotent ==
    /\ []C24_AfterEveryCall
    /\ [][(cred \in revoked) => (token_blacklist' = token_blacklist)]_vars

\* C24 witness: blacklist_token returned for a credential revoked before.
C24_Witness ==
    \E t \in SeqThreads :
        /\ th[t].op = "blacklist_token" /\ th[t].pc = "done"
        /\ th[t].kind = "repeated"

\* C26 (as claimed): a request to an endpoint of limit M is admitted only if
\* fewer than M requests of its identity, to whichever rate-limited endpoint,
\* were admitted with a time less than windowSeconds before its own.
C26_AdmittedOnlyBelowLimit ==
    [][\A t \in Threads :
          (th[t].pc = "rl_lock" /\ th'[t].pc \notin {"rl_lock", "done"}) =>
              AdmittedInWindow(th[t].user, th[t].now) < th[t].limit]_vars

\* the step of the trail was evaluated and stopped the request
StoppedBy(r, step) == \E k \in DOMAIN r.trail : r.trail[k] = <<step, FALSE>>

\* a cast request past the rate limiter has its time as the latest entry of
\* its identity's window, also when the cooldown guard stops it
C27_RateCommitted ==
    \A t \in SeqThreads :
        LET r == th[t]
            list == rate_limit_storage[r.user]
        IN  r.op = "cast" /\ InTrail(r, "rate") /\ ~StoppedBy(r, "rate") =>
              /\ list # <<>> /\ list[Len(list)] = r.stamp
              /\ AdmittedInWindow(r.user, r.stamp) >= 1
              /\ StoppedBy(r, "cooldown") => r.pc = "done" /\ r.status = "429"

\* a cast request the rate limiter stops has not looked at the cooldown, and
\* no step of it changes the cooldown stamps
C27_CooldownUntouched ==
    \A t \in SeqThreads :
        (th[t].op = "cast" /\ (th[t].pc = "rl_lock" \/ StoppedBy(th[t], "rate"))) =>
            /\ ~InTrail(th[t], "cooldown") /\ ~InTrail(th'[t], "cooldown")
            /\ cooldown_storage' = cooldown_storage
            /\ passes' = passes

\* C27: on /api/cast, with one request at a time, the rate limiter runs and
\* commits before the cooldown guard: a request the cooldown guard denies has
\* its time in the identity's rate window, where it counts against the limit,
\* and a request the rate limiter denies never reads or changes the cooldown
\* stamp.
C27_RateBeforeCooldown == []C27_RateCommitted /\ [][C27_CooldownUntouched]_vars

\* C27 witness: a cast request was admitted by the rate limiter and denied by
\* the cooldown guard.
C27_Witness ==
    \E t \in SeqThreads :
        /\ th[t].op = "cast" /\ StoppedBy(th[t], "cooldown")
        /\ th[t].pc = "done" /\ th[t].status = "429"

\* auth.py 171-194 under concurrency: check_login_attempts and
\* record_login_attempt called from two request threads
NextLoginCalls ==
    \/ Tick
    \/ \E t \in Threads : \/ LoginCheckEnter(t)
                          \/ LoginCheckLocked(t)
                          \/ RecordLoginAttempt(t)
                          \/ Return(t)

SpecLoginCalls == InitGuards /\ [][NextLoginCalls]_vars

\* C25 (as claimed): in every interleaving of concurrent check and record
\* calls, a check that returns Denied reports a remaining time that is
\* positive and at most the lockout period.
C25_RemainingInRange ==
    \A t \in Threads :
        (th[t].op = "check" /\ th[t].pc = "done" /\ th[t].status = "Denied") =>
            (0 < th[t].remaining /\ th[t].remaining <= LoginWindow)

----------------------------------------------------------------------------
(* The locks of the guards *)

\* auth.py 20-27: the shared maps
Maps == {"rate_limit_storage", "cooldown_storage", "token_blacklist",
         "login_attempts"}

\* auth.py 15-17
Locks == {"_rate_limit_lock", "_cooldown_lock", "_blacklist_lock"}

\* auth.py 39, 45, 175, 193, 199, 246, 272, 287: the lock of the `with`
\* statement around each map's accesses
LockOf(map) == CASE map = "rate_limit_storage" -> "_rate_limit_lock"
                 [] map = "login_attempts" -> "_rate_limit_lock"
                 [] map = "cooldown_storage" -> "_cooldown_lock"
                 [] map = "token_blacklist" -> "_blacklist_lock"

\* the functions that are one `with` block: auth.py 37-48, 191-200
CallOps == {"blacklist_token", "is_token_blacklisted", "record", "clear"}

\* the map a thread's next step accesses, "-" when it accesses none
MapOf(r) ==
    CASE r.pc = "lc_lock" -> "login_attempts"
      [] r.pc = "rl_lock" -> "rate_limit_storage"
      [] r.pc \in {"cd_check", "cd_set"} -> "cooldown_storage"
      [] r.pc = "call" /\ r.op \in {"record", "clear"} -> "login_attempts"
      [] r.pc = "call" /\ r.op \in {"blacklist_token", "is_token_blacklisted"} ->
             "token_blacklist"
      [] OTHER -> "-"

\* mutant: the function rate_limit wraps is called inside the `with` block
HeldAt_wrapped(r) ==
    IF r.pc = "action" THEN {"_rate_limit_lock"}
    ELSE IF MapOf(r) = "-" THEN {} ELSE {LockOf(MapOf(r))}

\* the locks held while a thread's next step runs: the step is inside the
\* `with` block of its map, or (auth.py 173, 263, 284, 301-319) outside any
HeldAt(r) == IF MapOf(r) = "-" THEN {} ELSE {LockOf(MapOf(r))}

\* the thread is where its next statement runs: inside the `with` block it
\* entered for this step, or outside every block
CanStep(t) ==
    /\ th[t].held = HeldAt(th[t])
    /\ th[t].held # {} => th[t].at = th[t].pc

\* threading.Lock.acquire at the head of a `with` block: blocks while another
\* thread holds the lock
Acquire(t) ==
    /\ th[t].at \in {"-", th[t].pc}
    /\ \E l \in HeldAt(th[t]) \ th[t].held :
         /\ \A o \in Threads : l \notin th[o].held
         /\ th' = [th EXCEPT ![t].held = @ \cup {l}, ![t].at = th[t].pc]
    /\ UNCHANGED <<clock, verifyVars, rateVars, cooldownVars, loginVars>>

\* the end of a `with` block, by falling out of it or by a return inside it
\* (auth.py 184-188, 255-258, 280-282)
Release(t) ==
    /\ th[t].held # {}
    /\ th[t].at # th[t].pc
    /\ th' = [th EXCEPT ![t].held = {}, ![t].at = "-"]
    /\ UNCHANGED <<clock, verifyVars, rateVars, cooldownVars, loginVars>>

\* auth.py 37, 43, 191, 197: a thread calls one of the one-block functions
GuardCall(t) ==
    /\ th[t].pc = "idle"
    /\ \E op \in CallOps, i \in ({"ip"} \X IpAddrs) :
         /\ op = "record" => Len(failures[i]) < LoginMax
         /\ th' = [th EXCEPT ![t] = [Idle EXCEPT !.pc = "call", !.op = op,
                                                 !.kind = i[1], !.id = i[2]]]
    /\ UNCHANGED <<clock, verifyVars, rateVars, cooldownVars, loginVars>>

\* auth.py 193-194
RecordLocked(t) ==
    /\ th[t].pc = "call" /\ th[t].op = "record"
    /\ LET i == <<th[t].kind, th[t].id>>
       IN  /\ login_attempts' =
                 [login_attempts EXCEPT ![LoginKey(i[1], i[2])] =
                                            Append(@, AttemptStamp(clock))]
           /\ failures' = [failures EXCEPT ![i] = Append(@, clock)]
    /\ Goto(t, "done")
    /\ UNCHANGED <<clock, verifyVars, rateVars, cooldownVars, exchanges>>

\* auth.py 199-200
ClearLocked(t) ==
    /\ th[t].pc = "call" /\ th[t].op = "clear"
    /\ LET i == <<th[t].kind, th[t].id>>
       IN  /\ login_attempts' =
                 [login_attempts EXCEPT ![LoginKey(i[1], i[2])] = Cleared(@)]
           /\ failures' = [failures EXCEPT ![i] = <<>>]
    /\ Goto(t, "done")
    /\ UNCHANGED <<clock, verifyVars, rateVars, cooldownVars, exchanges>>

\* auth.py 39-41
BlacklistLocked(t) ==
    /\ th[t].pc = "call" /\ th[t].op = "blacklist_token"
    /\ token_blacklist' = BlacklistAdd(token_blacklist, cred)
    /\ revoked' = revoked \cup {cred}
    /\ Goto(t, "done")
    /\ UNCHANGED <<clock, jwt_secret, supabase_url, cred, vlast, rateVars,
                   cooldownVars, loginVars>>

\* auth.py 45-48
IsBlacklistedLocked(t) ==
    /\ th[t].pc = "call" /\ th[t].op = "is_token_blacklisted"
    /\ Respond(t, IF is_token_blacklisted(cred, token_blacklist)
                  THEN "True" ELSE "False", 0)
    /\ UNCHANGED <<clock, verifyVars, rateVars, cooldownVars, loginVars>>

\* a thread enters one of the guards
GuardEnter(t) ==
    \/ LoginCheckEnter(t) /\ th'[t].kind = "ip"
    \/ RateEnter(t) /\ th'[t].user # "u2"
    \/ CooldownEnter(t) /\ th'[t].user # "u2"
    \/ GuardCall(t)

\* a thread inside a guard runs its next statement
GuardStep(t) ==
    /\ CanStep(t)
    /\ \/ LoginCheckLocked(t) \/ RateLimitLocked(t)
       \/ CheckCooldown(t) \/ SetCooldown(t)
       \/ RecordLocked(t) \/ ClearLocked(t)
       \/ BlacklistLocked(t) \/ IsBlacklistedLocked(t)
       \/ GuardedAction(t)

NextLocks ==
    \E t \in Threads :
        \/ CanStep(t) /\ GuardEnter(t)
        \/ Acquire(t)
        \/ GuardStep(t)
        \/ Release(t)
        \/ CanStep(t) /\ Return(t)

SpecLocks == InitGuards /\ [][NextLocks]_vars

\* Scheduling: a thread that can run its next statement or leave a `with`
\* block does so (weak fairness); a thread waiting at a lock that is released
\* again and again eventually gets it (strong fairness: threading.Lock has no
\* queue, and with weak fairness alone a waiting thread can be overtaken for
\* ever by threads that keep calling the guards).  No fairness is put on new
\* calls arriving.
SpecLocksFair ==
    /\ SpecLocks
    /\ \A t \in Threads : /\ WF_vars(GuardStep(t))
                          /\ WF_vars(Release(t))
                          /\ SF_vars(Acquire(t))

\* the thread is inside a critical section on the map
Inside(t, map) == th[t].held # {} /\ th[t].at = th[t].pc /\ MapOf(th[t]) = map

\* the thread is at the head of a critical section on the map
Entering(t, map) == th[t].held = {} /\ MapOf(th[t]) = map

\* C22 (as claimed): every map has a lock of its own, so a thread at the head
\* of a critical section on one map is never kept out by a thread inside a
\* critical section on another map.
C22_OwnLockPerMap ==
    \A t \in Threads, o \in Threads, m \in Maps, n \in Maps :
        (t # o /\ m # n /\ Entering(t, m) /\ Inside(o, n)) =>
            /\ LockOf(m) # LockOf(n)
            /\ ENABLED Acquire(t)

\* the thread waits for a lock another thread holds
Blocked(t) ==
    /\ th[t].at \in {"-", th[t].pc}
    /\ \E l \in HeldAt(th[t]) \ th[t].held : \E o \in Threads : l \in th[o].held

\* no thread holds two locks, none is held between calls, and a thread that
\* keeps another waiting is not itself waiting
C23_LockDiscipline ==
    \A t \in Threads :
        /\ Cardinality(th[t].held) <= 1
        /\ th[t].held \subseteq Locks
        /\ th[t].pc = "idle" => th[t].held = {}
        /\ Blocked(t) =>
              \A o \in Threads : th[o].held # {} => (~Blocked(o) /\ ENABLED (GuardStep(o) \/ Release(o)))

\* the function a guard wraps runs in a thread that holds no lock, and a
\* response leaves a thread that holds none
C23_RunsUnlocked ==
    \A t \in Threads :
        /\ (th[t].pc = "action" /\ th'[t].pc # "action") => th[t].held = {}
        /\ (th[t].pc = "done" /\ th'[t].pc = "idle") => th[t].held = {}

====
